---- MODULE Spec2Model ----
(***************************************************************************)
(* SelectorSpy (src/selectorspy.js): a registry of spies installed on      *)
(* members of namespace objects.  The model keeps the namespaces' members, *)
(* the list `spies`, the properties SelectorSpy stores on the function     *)
(* objects the handlers return, the closures of the installed wrappers,    *)
(* and the JavaScript call stack of a call to a spied member.              *)
(***************************************************************************)
EXTENDS Integers, Sequences, FiniteSets, TLC

\* ---------------------------------------------------------------- bounds
\* Number of spy() calls (wrappers created) in one behaviour.
MaxInst == 3
\* Depth of the JavaScript call stack of one call to a member.
MaxDepth == 4
\* Number of wrappers created in one behaviour that uses spyjQuery.
MaxInstjQuery == 5
\* Number of spy() calls in one behaviour that looks at the proxy.
MaxInstProxy == 2
\* Number of calls to members one run of an original makes.
MaxCalls == 2

\* ---------------------------------------------------------------- universe
\* (namespace, fnName) pairs: two of them share the namespace, two the name.
PO == <<"A", "outer">>
PI == <<"B", "inner">>
PX == <<"A", "inner">>
Pairs == {PO, PI, PX}

\* The user's handlers: what each pushes into `bypassed`, and whether it
\* returns a function created by this invocation or one function object it
\* returns every time.
Handlers == {"plain", "byp", "shared"}
Undefined == "undefined"

\* spyjQuery: the members of jQuery.fn it spies on, in its order, and
\* jQuery.find.
jQueryFnNames == <<"not", "find", "filter", "is">>
jQueryFn(name) == <<"jQuery.fn", name>>
jQueryFind == <<"jQuery", "find">>
jQueryPairs == {jQueryFn(jQueryFnNames[k]) : k \in 1..Len(jQueryFnNames)} \cup {jQueryFind}
\* The two handlers spyjQuery passes to spy: the one for the members of
\* jQuery.fn pushes {namespace: jQuery.fn, fnName: "find"}, an entry whose
\* property `fn` is undefined.
jQueryHandlers == {"jqfn", "jq"}

AllPairs == Pairs \cup jQueryPairs
AllHandlers == Handlers \cup jQueryHandlers

HandlerBypass(h) ==
    IF h = "byp" THEN <<PI>>
    ELSE IF h = "jqfn" THEN <<jQueryFn(Undefined)>>
    ELSE <<>>
HandlerShares(h) == h = "shared"
\* The function object the shared handler returns.
SharedFn == 0

\* The member the original function of a pair calls, if any: the original
\* A.outer delegates to B.inner.
OriginalCallees(p) ==
    IF p = PO THEN {PI}
    ELSE IF p = jQueryFn("find") THEN {jQueryFind}
    ELSE {}

\* ---------------------------------------------------------------- values
Null == [k |-> "null"]
Native(p) == [k |-> "native", p |-> p]
Wrapper(i) == [k |-> "wrapper", i |-> i]

\* A JavaScript value passed as an argument: a string, kept as the sequence of
\* the simple selectors it is made of, or an Array of values.
Str(s) == [arr |-> FALSE, s |-> s, v |-> <<>>]
Arr(v) == [arr |-> TRUE, s |-> <<>>, v |-> v]

\* The value an original function returns: nothing is known of it but the
\* function, the receiver and the arguments of the call that made it.
Res(p, this, args) == [of |-> p, this |-> this, args |-> args]
NoValue == [of |-> <<"", "">>, this |-> "", args |-> <<>>]
\* A value a replacement makes up itself.
OwnValue == [of |-> <<"", "replacement">>, this |-> "", args |-> <<>>]

\* context || theSpy.namespace: a context that is undefined or null is falsy.
Truthy(c) == c \notin {Undefined, "null"}

VARIABLES
    ns,      \* ns[p]: the function at namespace[fnName]
    spies,   \* the list `spies`: function objects, in push order
    props,   \* props[f]: native, pair, bypassed stored on function object f
    insts,   \* insts[i]: closure of the i-th spy call: namespace and fnName,
             \* theSpy, the bypassed array
    stack,   \* call stack of the call in progress, top last
    call,    \* what the call in progress (or the last one) did
    last,    \* the last user operation, what it returned, what was spied before
             \* it and, for a call, the members and the number of functions
             \* the handlers had made before it
    rt,      \* the run spy(p), .., spy(p), unspy(p) on one pair that just happened:
             \* the member and the registry before its last and last but one spy
    log,     \* the user operations since the start and how each ended, while
             \* they follow a script
    basic    \* the basic module given the same spy, unspy and unspyAll: its
             \* members and its list selectorAPI

vars == <<ns, spies, props, insts, stack, call, last, rt, log, basic>>

\* ---------------------------------------------------------------- registry
\* spies[i].namespace === namespace && spies[i].fn === fnName
SamePair(a, b) == a[1] = b[1] /\ a[2] = b[2]

\* Index of the first record of `sp` for pair p, or Len(sp) + 1.
RECURSIVE FindFrom(_, _, _, _)
FindFrom(sp, pr, p, i) ==
    IF i > Len(sp) THEN i
    ELSE IF SamePair(pr[sp[i]].pair, p) THEN i
    ELSE FindFrom(sp, pr, p, i + 1)

Find(st, p) == FindFrom(st.spies, st.props, p, 1)

Intercepted(st, p) == Find(st, p) <= Len(st.spies)

RemoveAt(s, i) == [k \in 1..(Len(s) - 1) |-> IF k < i THEN s[k] ELSE s[k + 1]]

\* unspy that removes the record and leaves the member as it is.
UnspyOpKeepsMember(st, p) ==
    LET i == Find(st, p) IN
    IF i <= Len(st.spies)
    THEN [st |-> [st EXCEPT !.spies = RemoveAt(st.spies, i)], ret |-> st.ns[p]]
    ELSE [st |-> st, ret |-> Null]

\* unspy(namespace, fnName): the state after it and the value it returns.
UnspyOp(st, p) ==
    LET i == Find(st, p) IN
    IF i <= Len(st.spies)
    THEN [st  |-> [st EXCEPT !.ns[p] = st.props[st.spies[i]].native,
                             !.spies = RemoveAt(st.spies, i)],
          ret |-> st.ns[p]]
    ELSE [st |-> st, ret |-> Null]

\* unspyAll()
RECURSIVE RestoreFrom(_, _, _, _)
RestoreFrom(m, sp, pr, i) ==
    IF i > Len(sp) THEN m
    ELSE RestoreFrom([m EXCEPT ![pr[sp[i]].pair] = pr[sp[i]].native], sp, pr, i + 1)

UnspyAllOp(st) ==
    [st EXCEPT !.ns = RestoreFrom(st.ns, st.spies, st.props, 1), !.spies = <<>>]

\* retreive(namespace, fnName)
RetreiveOp(st, p) ==
    LET i == Find(st, p) IN
    IF i <= Len(st.spies) THEN st.ns[st.props[st.spies[i]].pair] ELSE Null

\* The array `bypassed` after handler h has pushed its entries.
PushedBypass(h) ==
    [k \in 1..Len(HandlerBypass(h)) |-> [pair |-> HandlerBypass(h)[k], handler |-> Undefined]]

\* "check incoherence": some entry names the pair being spied.
BypassesItself(b, p) == \E k \in 1..Len(b) : SamePair(b[k].pair, p)

\* One spy's bypassed array after "save original handler": the first entry
\* for pair p gets handler h.
RECURSIVE FirstEntry(_, _, _)
FirstEntry(b, p, k) ==
    IF k > Len(b) THEN k
    ELSE IF SamePair(b[k].pair, p) THEN k
    ELSE FirstEntry(b, p, k + 1)

SaveIn(b, p, h) ==
    LET k == FirstEntry(b, p, 1) IN
    IF k <= Len(b) THEN [b EXCEPT ![k].handler = h] ELSE b

\* spies.forEach(...) of "save original handler", over spies[i..].
RECURSIVE SaveHandler(_, _, _, _, _, _)
SaveHandler(ins, sp, pr, p, h, i) ==
    IF i > Len(sp) THEN ins
    ELSE LET a == pr[sp[i]].bypassed IN
         SaveHandler([ins EXCEPT ![a].bypassed = SaveIn(ins[a].bypassed, p, h)],
                     sp, pr, p, h, i + 1)

\* spy that takes as native the member it finds on entry, before its unspy.
SpyOpStacks(st, p, h) ==
    LET u == UnspyOp(st, p).st IN
    IF h = Undefined THEN [st |-> u, err |-> "TypeError"]
    ELSE
    LET id       == Len(u.insts) + 1
        theSpy   == IF HandlerShares(h) THEN SharedFn ELSE id
        bypassed == PushedBypass(h)
    IN
    IF BypassesItself(bypassed, p) THEN [st |-> u, err |-> "OwnSelector"]
    ELSE
    [st  |-> [ns    |-> [u.ns EXCEPT ![p] = Wrapper(id)],
              spies |-> Append(u.spies, theSpy),
              props |-> (theSpy :> [native |-> st.ns[p], pair |-> p, bypassed |-> id])
                       @@ u.props,
              insts |-> Append(SaveHandler(u.insts, u.spies, u.props, p, h, 1),
                               [theSpy |-> theSpy, bypassed |-> bypassed, maker |-> h,
                                pair |-> p])],
     err |-> "none"]

\* spy(namespace, fnName, handler): the state after it and how it ended.
SpyOp(st, p, h) ==
    LET u == UnspyOp(st, p).st IN
    IF h = Undefined THEN [st |-> u, err |-> "TypeError"]
    ELSE
    LET id       == Len(u.insts) + 1
        theSpy   == IF HandlerShares(h) THEN SharedFn ELSE id
        bypassed == PushedBypass(h)
    IN
    IF BypassesItself(bypassed, p) THEN [st |-> u, err |-> "OwnSelector"]
    ELSE
    LET saved == SaveHandler(u.insts, u.spies, u.props, p, h, 1)
        rec   == [native |-> u.ns[p], pair |-> p, bypassed |-> id]
    IN
    [st  |-> [ns    |-> [u.ns EXCEPT ![p] = Wrapper(id)],
              spies |-> Append(u.spies, theSpy),
              props |-> (theSpy :> rec) @@ u.props,
              insts |-> Append(saved, [theSpy |-> theSpy, bypassed |-> bypassed, maker |-> h,
                                       pair |-> p])],
     err |-> "none"]

\* spyjQuery(handler): spy on each name of jQueryFnNames in jQuery.fn, then on
\* jQuery.find; a spy that throws ends it.
RECURSIVE SpyEachName(_, _)
SpyEachName(st, k) ==
    IF k > Len(jQueryFnNames) THEN SpyOp(st, jQueryFind, "jq")
    ELSE LET r == SpyOp(st, jQueryFn(jQueryFnNames[k]), "jqfn")
         IN IF r.err # "none" THEN r ELSE SpyEachName(r.st, k + 1)

SpyjQueryOp(st) == SpyEachName(st, 1)

\* ---------------------------------------------------------------- calls
Core == [ns |-> ns, spies |-> spies, props |-> props, insts |-> insts]

\* A proxy that passes args on as one argument, Array or not.
ProxyCallNoSpread(st, theSpy, a, c) ==
    [fn   |-> st.props[theSpy].native,
     this |-> IF Truthy(c) THEN c ELSE st.props[theSpy].pair[1],
     args |-> <<a>>]

\* proxy(args, context): the call of theSpy.native it makes.
ProxyCall(st, theSpy, a, c) ==
    [fn   |-> st.props[theSpy].native,
     this |-> IF Truthy(c) THEN c ELSE st.props[theSpy].pair[1],
     args |-> IF a.arr THEN a.v ELSE <<a>>]

\* What a replacement passed to the proxy, and the call the proxy made.
NoPx == [form |-> "none", cx |-> "none", a |-> Str(<<>>), c |-> Undefined,
         inv |-> [fn |-> Null, this |-> "", args |-> <<>>]]

\* The stack frame of a call to function value v with receiver `this` and
\* arguments args.
Frame(v, this, args) ==
    IF v.k = "wrapper"
    THEN [t |-> "wrapper", i |-> v.i, p |-> PO, pc |-> "enter", made |-> 0,
          this |-> this, args |-> args, px |-> NoPx, ret |-> NoValue]
    ELSE [t |-> "native", i |-> 0, p |-> v.p, pc |-> "run", made |-> 0,
          this |-> this, args |-> args, px |-> NoPx, ret |-> NoValue]

\* The value a frame returns: an original its result, a wrapper `ret`.
Value(f) == IF f.t = "native" THEN Res(f.p, f.this, f.args) ELSE f.ret

\* A wrapper that forgets the value its replacement returned.
ReturnDropsRet(stk) ==
    LET r == SubSeq(stk, 1, Len(stk) - 1) IN
    IF r = <<>> THEN r
    ELSE IF r[Len(r)].t = "native" THEN [r EXCEPT ![Len(r)].pc = "back"]
    ELSE [r EXCEPT ![Len(r)].pc = "exit"]

\* The stack after its top frame has returned: an original that was waiting
\* for its callee goes on; a wrapper whose replacement was waiting for the
\* proxy has the proxy's result as `ret` and goes on to reinstall its
\* bypassed spies.
Return(stk) ==
    LET r == SubSeq(stk, 1, Len(stk) - 1) IN
    IF r = <<>> THEN r
    ELSE IF r[Len(r)].t = "native" THEN [r EXCEPT ![Len(r)].pc = "back"]
    ELSE [r EXCEPT ![Len(r)].pc = "exit", ![Len(r)].ret = Value(stk[Len(stk)])]

\* A wrapper that unspies nothing before it runs its replacement.
UnspyEachSkips(st, i, k) == st

\* bypassed.forEach(unspy), entries k.. of wrapper i's array.
RECURSIVE UnspyEach(_, _, _)
UnspyEach(st, i, k) ==
    IF k > Len(st.insts[i].bypassed) THEN st
    ELSE UnspyEach(UnspyOp(st, st.insts[i].bypassed[k].pair).st, i, k + 1)

\* bypassed.forEach(spy with bypass.handler), entries k.. of wrapper i's
\* array; the first spy that throws ends the loop.
RECURSIVE RespyEach(_, _, _)
RespyEach(st, i, k) ==
    IF k > Len(st.insts[i].bypassed) THEN [st |-> st, err |-> "none"]
    ELSE LET e == st.insts[i].bypassed[k]
             r == SpyOp(st, e.pair, e.handler)
         IN IF r.err # "none" THEN r ELSE RespyEach(r.st, i, k + 1)

\* ---------------------------------------------------------------- observers
\* How an operation ended: returned or threw, what was thrown, and how often
\* the replacements made by each handler and each pair's original ran.
NoCall == [outcome |-> "none", err |-> "none",
           runs |-> [h \in AllHandlers |-> 0], origs |-> [p \in AllPairs |-> 0],
           this |-> "", args |-> <<>>, forms |-> {}, ret |-> NoValue]
Returned == [NoCall EXCEPT !.outcome = "ok"]
NoOp == [op |-> "init", p |-> PO, h |-> Undefined, ret |-> Null, was |-> {}, fn |-> Null, ns |-> <<>>, made |-> 0]
NoSnap == [pre |-> Null, had |-> FALSE, orig |-> Null]
NoRt == [p |-> PO, n |-> 0, done |-> FALSE, now |-> NoSnap, first |-> NoSnap]

Spied(st) == {q \in DOMAIN st.ns : Intercepted(st, q)}

\* The suppression scenario: spy on (A, "outer") with a handler that
\* bypasses (B, "inner"), spy on (B, "inner"), call A.outer, call B.inner.
Step(op, p, h) == [op |-> op, p |-> p, h |-> h]
SuppressionScript ==
    <<Step("spy", PO, "byp"), Step("spy", PI, "plain"),
      Step("call", PO, Undefined), Step("call", PI, Undefined)>>
\* The querySelector scenario: spy on a member with a replacement that calls
\* the proxy, then call the member.
QuerySelectorScript ==
    <<Step("spy", PO, "plain"), Step("call", PO, Undefined)>>
\* The suppression scenario with the target spied first.
TargetFirstScript ==
    <<Step("spy", PI, "plain"), Step("spy", PO, "byp"), Step("call", PO, Undefined)>>
\* The target of a bypass is unspied, then the outer spy is called.
UnspiedTargetScript ==
    <<Step("spy", PO, "byp"), Step("spy", PI, "plain"),
      Step("unspy", PI, Undefined), Step("call", PO, Undefined)>>
Scripts == {SuppressionScript, QuerySelectorScript, TargetFirstScript, UnspiedTargetScript}

Off == <<[op |-> "off", p |-> PO, h |-> Undefined, res |-> NoCall]>>

Logging == log = <<>> \/ log[1].op # "off"

\* The log while the user's operations follow one of the scripts.
Logged(op, p, h, res) ==
    LET n == Len(log) + 1 IN
    IF /\ Logging
       /\ \E s \in Scripts :
            /\ n <= Len(s)
            /\ s[n] = Step(op, p, h)
            /\ \A k \in 1..Len(log) : s[k] = Step(log[k].op, log[k].p, log[k].h)
    THEN Append(log, [op |-> op, p |-> p, h |-> h, res |-> res])
    ELSE Off

\* The closures that can still run: those of the wrappers installed in a
\* member or on the call stack, and of the wrappers that are theSpy.native of
\* a function object in `spies` or of such a closure.
WrapperIndex(v) == IF v.k = "wrapper" THEN {v.i} ELSE {}

Roots(st, stk) ==
    UNION {WrapperIndex(st.ns[p]) : p \in DOMAIN st.ns}
        \cup {stk[k].i : k \in {j \in 1..Len(stk) : stk[j].t = "wrapper"}}

Objects(st, w) ==
    {st.spies[k] : k \in 1..Len(st.spies)} \cup {st.insts[i].theSpy : i \in w}

RECURSIVE Reachable(_, _)
Reachable(st, w) ==
    LET n == w \cup UNION {WrapperIndex(st.props[t].native) : t \in Objects(st, w)}
    IN IF n = w THEN w ELSE Reachable(st, n)

\* What is left of a closure that nothing can reach any more.
Collected == [theSpy |-> SharedFn, bypassed |-> <<>>, maker |-> Undefined, pair |-> PO]

\* The closures of st while the stack is stk: one that no member, frame or
\* reachable function object refers to, and whose bypassed array no
\* reachable function object has, is garbage.
Collect(st, stk) ==
    LET w == Reachable(st, Roots(st, stk))
        a == {st.props[t].bypassed : t \in Objects(st, w)}
    IN [i \in 1..Len(st.insts) |->
            IF i \in w \cup a THEN st.insts[i] ELSE Collected]

SetCore(st) ==
    /\ ns' = st.ns
    /\ spies' = st.spies
    /\ props' = st.props
    /\ insts' = Collect(st, stack)

\* The call goes on as c; once it has ended, the log gets its result.
Goes(c) ==
    /\ call' = c
    /\ log' = IF c.outcome # "running" /\ Logging
              THEN [log EXCEPT ![Len(log)].res = c] ELSE log

\* The call once a frame has returned v and left the stack stk.
Ended(stk, c, v) == IF stk = <<>> THEN [c EXCEPT !.outcome = "ok", !.ret = v] ELSE c

Thrown(c, e) == [c EXCEPT !.outcome = "error", !.err = e]

Top == stack[Len(stack)]

Idle == stack = <<>>

\* ---------------------------------------------------------------- basic module
\* The function a handler returns to the basic module's spy, which installs
\* it as the member: the n-th function made, or the one function object a
\* sharing handler returns every time.
Replacement(h, n) == [k |-> "replacement", f |-> IF HandlerShares(h) THEN SharedFn ELSE n]

\* var selectorAPI = [], and the members before any spy.
BasicInit == [ns |-> [p \in Pairs |-> Native(p)], selectorAPI |-> <<>>, made |-> 0]

\* Index of the first record of selectorAPI for pair p, or its length + 1.
RECURSIVE BasicFindFrom(_, _, _)
BasicFindFrom(api, p, i) ==
    IF i > Len(api) THEN i
    ELSE IF SamePair(api[i].pair, p) THEN i
    ELSE BasicFindFrom(api, p, i + 1)

BasicIntercepted(b, p) == BasicFindFrom(b.selectorAPI, p, 1) <= Len(b.selectorAPI)

\* unspy(namespace, fnName) of the basic module
BasicUnspyOp(b, p) ==
    LET i == BasicFindFrom(b.selectorAPI, p, 1) IN
    IF i <= Len(b.selectorAPI)
    THEN [b EXCEPT !.ns[p] = b.selectorAPI[i].native,
                   !.selectorAPI = RemoveAt(b.selectorAPI, i)]
    ELSE b

\* spy(namespace, fnName, handler) of the basic module: unspy, push a record
\* that is an object of its own, install what the handler returns.
BasicSpyOp(b, p, h) ==
    LET u == BasicUnspyOp(b, p) IN
    [ns          |-> [u.ns EXCEPT ![p] = Replacement(h, u.made + 1)],
     selectorAPI |-> Append(u.selectorAPI, [native |-> u.ns[p], pair |-> p]),
     made        |-> u.made + 1]

\* unspyAll() of the basic module
RECURSIVE BasicRestoreFrom(_, _, _)
BasicRestoreFrom(m, api, i) ==
    IF i > Len(api) THEN m
    ELSE BasicRestoreFrom([m EXCEPT ![api[i].pair] = api[i].native], api, i + 1)

BasicUnspyAllOp(b) ==
    [b EXCEPT !.ns = BasicRestoreFrom(b.ns, b.selectorAPI, 1), !.selectorAPI = <<>>]

\* ---------------------------------------------------------------- Init
Init ==
    /\ ns = [p \in Pairs |-> Native(p)]
    /\ spies = <<>>
    /\ props = <<>>
    /\ insts = <<>>
    /\ stack = <<>>
    /\ call = NoCall
    /\ last = NoOp
    /\ rt = NoRt
    /\ log = <<>>
    /\ basic = BasicInit

\* ---------------------------------------------------------------- user operations
\* SelectorSpy.spy(namespace, fnName, handler)
Spy(p, h) ==
    /\ Idle
    /\ Len(insts) < MaxInst
    /\ LET r == SpyOp(Core, p, h)
           res == IF r.err = "none" THEN Returned ELSE Thrown(NoCall, r.err)
       IN
       /\ SetCore(r.st)
       /\ last' = [op |-> "spy", p |-> p, h |-> h, ret |-> Null,
                   was |-> Spied(Core), fn |-> ns[p], ns |-> <<>>, made |-> 0]
       /\ call' = res
       /\ log' = Logged("spy", p, h, res)
       /\ rt' = IF r.err # "none" THEN NoRt
                ELSE LET now == [pre |-> ns[p], had |-> Intercepted(Core, p),
                                 orig |-> IF Intercepted(Core, p)
                                          THEN props[spies[Find(Core, p)]].native
                                          ELSE Null]
                     IN IF rt.n > 0 /\ rt.p = p /\ ~rt.done
                        THEN [p |-> p, n |-> 2, done |-> FALSE,
                              now |-> now, first |-> rt.now]
                        ELSE [p |-> p, n |-> 1, done |-> FALSE,
                              now |-> now, first |-> now]
    /\ UNCHANGED stack
    /\ UNCHANGED basic

\* SelectorSpy.unspy(namespace, fnName)
Unspy(p) ==
    /\ Idle
    /\ LET r == UnspyOp(Core, p) IN
       /\ SetCore(r.st)
       /\ last' = [op |-> "unspy", p |-> p, h |-> Undefined, ret |-> r.ret,
                   was |-> Spied(Core), fn |-> ns[p], ns |-> <<>>, made |-> 0]
    /\ rt' = IF rt.n > 0 /\ rt.p = p /\ ~rt.done THEN [rt EXCEPT !.done = TRUE] ELSE NoRt
    /\ call' = Returned
    /\ log' = Logged("unspy", p, Undefined, Returned)
    /\ UNCHANGED stack
    /\ UNCHANGED basic

\* SelectorSpy.unspyAll()
UnspyAll ==
    /\ Idle
    /\ SetCore(UnspyAllOp(Core))
    /\ last' = [op |-> "unspyAll", p |-> PO, h |-> Undefined, ret |-> Null,
                was |-> Spied(Core), fn |-> Null, ns |-> <<>>, made |-> 0]
    /\ rt' = NoRt
    /\ call' = Returned
    /\ log' = Logged("unspyAll", PO, Undefined, Returned)
    /\ UNCHANGED stack
    /\ UNCHANGED basic

\* SelectorSpy.retreive(namespace, fnName)
Retreive(p) ==
    /\ Idle
    /\ last' = [op |-> "retreive", p |-> p, h |-> Undefined, ret |-> RetreiveOp(Core, p),
                was |-> Spied(Core), fn |-> ns[p], ns |-> <<>>, made |-> 0]
    /\ rt' = NoRt
    /\ call' = Returned
    /\ log' = Logged("retreive", p, Undefined, Returned)
    /\ UNCHANGED <<ns, spies, props, insts, stack>>
    /\ UNCHANGED basic

\* The user calls namespace[fnName] with receiver `this` and arguments args.
CallMember(p, this, args) ==
    /\ Idle
    /\ stack' = <<Frame(ns[p], this, args)>>
    /\ call' = [NoCall EXCEPT !.outcome = "running", !.this = this, !.args = args]
    /\ last' = [op |-> "call", p |-> p, h |-> Undefined, ret |-> Null,
                was |-> Spied(Core), fn |-> ns[p], ns |-> ns, made |-> Len(insts)]
    /\ rt' = NoRt
    /\ log' = Logged("call", p, Undefined,
                     [NoCall EXCEPT !.outcome = "running", !.this = this, !.args = args])
    /\ UNCHANGED <<ns, spies, props, insts>>
    /\ UNCHANGED basic

\* The user calls namespace[fnName](x) as a method of the namespace.
DefaultArgs == <<Str(<<"x">>)>>

UserCall(p) == CallMember(p, p[1], DefaultArgs)

\* ---------------------------------------------------------------- steps of a call
AtWrapper(pc) == ~Idle /\ Top.t = "wrapper" /\ Top.pc = pc

AtOriginal == ~Idle /\ Top.t = "native" /\ Top.pc \in {"run", "back"}

\* Once for each run of an original, counted at its first step.
Counted(c) == IF Top.pc = "run" THEN [c EXCEPT !.origs[Top.p] = @ + 1] ELSE c

\* The installed wrapper starts: it unspies every entry of its bypassed array.
WrapperEnter ==
    /\ AtWrapper("enter")
    /\ SetCore(UnspyEach(Core, Top.i, 1))
    /\ stack' = [stack EXCEPT ![Len(stack)].pc = "run"]
    /\ UNCHANGED <<call, last, rt, log>>
    /\ UNCHANGED basic

\* selector.replace(t, ""): the selector without the first t in it.
Replace(s, t) ==
    IF \E k \in 1..Len(s) : s[k] = t
    THEN RemoveAt(s, CHOOSE k \in 1..Len(s) : s[k] = t /\ \A j \in 1..(k - 1) : s[j] # t)
    ELSE s

\* What a replacement called with arguments args passes as the proxy's first
\* argument: its first argument, the Array of its arguments, or its first
\* argument, a selector, with ".foo" replaced by "".
FormArg(form, args) ==
    IF form = "first" THEN args[1]
    ELSE IF form = "all" THEN Arr(args)
    ELSE Str(Replace(args[1].s, ".foo"))

\* What it passes as the proxy's context: nothing, its own receiver, null
\* or another object.
ContextArg(cx, this) ==
    IF cx = "omitted" THEN Undefined
    ELSE IF cx = "this" THEN this
    ELSE IF cx = "null" THEN "null"
    ELSE "E"

\* ret = theSpy.apply(this, args): the replacement calls the proxy, which
\* calls theSpy.native, and returns what the proxy returns.
Forwards(form, cx) ==
    /\ AtWrapper("run")
    /\ Len(stack) < MaxDepth
    /\ Top.args # <<>>
    /\ form = "replace" => ~Top.args[1].arr
    /\ LET a   == FormArg(form, Top.args)
           c   == ContextArg(cx, Top.this)
           inv == ProxyCall(Core, insts[Top.i].theSpy, a, c)
       IN stack' = Append([stack EXCEPT ![Len(stack)].pc = "wait",
                                        ![Len(stack)].px = [form |-> form, cx |-> cx,
                                                            a |-> a, c |-> c, inv |-> inv]],
                          Frame(inv.fn, inv.this, inv.args))
    /\ Goes([call EXCEPT !.runs[insts[Top.i].maker] = @ + 1,
                         !.forms = @ \cup {<<form, cx>>}])
    /\ UNCHANGED <<ns, spies, props, insts, last, rt>>
    /\ UNCHANGED basic

\* How the replacement made by handler h calls the proxy: the replacements of
\* spyjQuery pass their receiver, proxy(handler(selector), this) and
\* proxy([handler(selector), context, results], this); the others call
\* proxy(selector).
HandlerForwards(h) ==
    IF h = "jqfn" THEN <<"first", "this">>
    ELSE IF h = "jq" THEN <<"all", "this">>
    ELSE <<"first", "omitted">>

ReplacementProxies ==
    /\ AtWrapper("run")
    /\ Forwards(HandlerForwards(insts[Top.i].maker)[1], HandlerForwards(insts[Top.i].maker)[2])

\* The replacement returns a value of its own, without the proxy; the
\* replacements of spyjQuery always call the proxy.
ReplacementReturns ==
    /\ AtWrapper("run")
    /\ insts[Top.i].maker \notin jQueryHandlers
    /\ stack' = [stack EXCEPT ![Len(stack)].pc = "exit", ![Len(stack)].ret = OwnValue]
    /\ Goes([call EXCEPT !.runs[insts[Top.i].maker] = @ + 1])
    /\ UNCHANGED <<ns, spies, props, insts, last, rt>>
    /\ UNCHANGED basic

\* The replacement throws: nothing on the stack catches.
ReplacementThrows ==
    /\ AtWrapper("run")
    /\ stack' = <<>>
    /\ Goes(Thrown([call EXCEPT !.runs[insts[Top.i].maker] = @ + 1], "thrown"))
    /\ UNCHANGED <<ns, spies, props, insts, last, rt>>
    /\ UNCHANGED basic

\* After the replacement has returned the wrapper spies again every entry
\* of its bypassed array, then returns ret.
WrapperExit ==
    /\ AtWrapper("exit")
    /\ LET r == RespyEach(Core, Top.i, 1) IN
       /\ Len(r.st.insts) = Len(insts) \/ Len(r.st.insts) <= MaxInst
       /\ SetCore(r.st)
       /\ IF r.err # "none"
          THEN stack' = <<>> /\ Goes(Thrown(call, r.err))
          ELSE stack' = Return(stack) /\ Goes(Ended(Return(stack), call, Top.ret))
    /\ UNCHANGED <<last, rt>>
    /\ UNCHANGED basic

\* An original function returns.
OriginalReturns ==
    /\ AtOriginal
    /\ stack' = Return(stack)
    /\ Goes(Ended(Return(stack), Counted(call), Value(Top)))
    /\ UNCHANGED <<ns, spies, props, insts, last, rt>>
    /\ UNCHANGED basic

\* An original function throws.
OriginalThrows ==
    /\ AtOriginal
    /\ stack' = <<>>
    /\ Goes(Thrown(Counted(call), "thrown"))
    /\ UNCHANGED <<ns, spies, props, insts, last, rt>>
    /\ UNCHANGED basic

\* An original function calls the member it delegates to, as a method of
\* its namespace and with its own arguments.
OriginalCalls(q) ==
    /\ AtOriginal
    /\ Top.pc = "run"
    /\ q \in OriginalCallees(Top.p)
    /\ Len(stack) < MaxDepth
    /\ stack' = Append([stack EXCEPT ![Len(stack)].pc = "wait", ![Len(stack)].made = 1],
                       Frame(ns[q], q[1], Top.args))
    /\ Goes(Counted(call))
    /\ UNCHANGED <<ns, spies, props, insts, last, rt>>
    /\ UNCHANGED basic

\* The members an original may call when originals call each other freely:
\* the original A.outer calls A.outer again and B.inner.
NestCallees(p) == IF p = PO THEN {PO, PI} ELSE {}

\* An original function calls a member, also after an earlier call of its
\* own has returned.
OriginalCallsNested(q) ==
    /\ AtOriginal
    /\ Top.made < MaxCalls
    /\ q \in NestCallees(Top.p)
    /\ Len(stack) < MaxDepth
    /\ stack' = Append([stack EXCEPT ![Len(stack)].pc = "wait", ![Len(stack)].made = @ + 1],
                       Frame(ns[q], q[1], Top.args))
    /\ Goes(Counted(call))
    /\ UNCHANGED <<ns, spies, props, insts, last, rt>>
    /\ UNCHANGED basic

Next ==
    \/ \E p \in Pairs, h \in Handlers : Spy(p, h)
    \/ \E p \in Pairs : Unspy(p)
    \/ UnspyAll
    \/ \E p \in Pairs : Retreive(p)
    \/ \E p \in Pairs : UserCall(p)
    \/ WrapperEnter
    \/ ReplacementProxies
    \/ ReplacementReturns
    \/ ReplacementThrows
    \/ WrapperExit
    \/ OriginalReturns
    \/ OriginalThrows
    \/ \E q \in Pairs : OriginalCalls(q)

Spec == Init /\ [][Next]_vars

\* The same program when every handler returns a function of its own.
NextFresh ==
    \/ \E p \in Pairs, h \in Handlers : ~HandlerShares(h) /\ Spy(p, h)
    \/ \E p \in Pairs : Unspy(p)
    \/ UnspyAll
    \/ \E p \in Pairs : Retreive(p)
    \/ \E p \in Pairs : UserCall(p)
    \/ WrapperEnter
    \/ ReplacementProxies
    \/ ReplacementReturns
    \/ ReplacementThrows
    \/ WrapperExit
    \/ OriginalReturns
    \/ OriginalThrows
    \/ \E q \in Pairs : OriginalCalls(q)

SpecFresh == Init /\ [][NextFresh]_vars

\* ---------------------------------------------------------------- proxy
\* The pairs spied on and called, and the receivers of a call: for each pair
\* its namespace and another object.
ProxyPairs == {PO, PI}
Receivers == {"A", "B"}

\* The argument lists of a call: a selector, an Array as the only argument,
\* and the three arguments (selector, context, results) of jQuery.find.
ArgLists ==
    {<<Str(<<".foo", ".bar">>)>>,
     <<Arr(<<Str(<<".bar">>), Str(<<"#a">>)>>)>>,
     <<Str(<<".bar">>), Str(<<"ctx">>), Str(<<"res">>)>>}

Forms == {"first", "all", "replace"}
Contexts == {"omitted", "this", "null", "other"}

\* The replacement the user's call runs calls the proxy in one of the ways a
\* replacement can; a replacement that a proxy's call of theSpy.native runs
\* calls it as proxy(selector).
ReplacementForwards(form, cx) ==
    IF Len(stack) = 1 THEN Forwards(form, cx) ELSE ReplacementProxies

\* The same program seen through the proxy: calls with any receiver and
\* arguments to members spied with handlers that declare no bypass.
NextProxy ==
    \/ \E p \in ProxyPairs, h \in {"plain", "shared"} : Len(insts) < MaxInstProxy /\ Spy(p, h)
    \/ \E p \in ProxyPairs : Unspy(p)
    \/ \E p \in ProxyPairs, this \in Receivers, args \in ArgLists : CallMember(p, this, args)
    \/ WrapperEnter
    \/ \E form \in Forms, cx \in Contexts : ReplacementForwards(form, cx)
    \/ ReplacementReturns
    \/ WrapperExit
    \/ OriginalReturns

SpecProxy == Init /\ [][NextProxy]_vars

\* ---------------------------------------------------------------- nesting
NestPairs == {PO, PI}

\* The same program with originals that call members more than once and
\* recursively, under handlers that return a function of their own.
NextNest ==
    \/ \E p \in NestPairs, h \in {"plain", "byp"} : Spy(p, h)
    \/ \E p \in NestPairs : Unspy(p)
    \/ \E p \in NestPairs : UserCall(p)
    \/ WrapperEnter
    \/ ReplacementProxies
    \/ ReplacementReturns
    \/ WrapperExit
    \/ OriginalReturns
    \/ \E q \in NestPairs : OriginalCallsNested(q)

SpecNest == Init /\ [][NextNest]_vars

\* ---------------------------------------------------------------- jQuery
\* The namespaces jQuery.fn and jQuery before any spy.
InitjQuery ==
    /\ ns = [p \in jQueryPairs |-> Native(p)]
    /\ spies = <<>>
    /\ props = <<>>
    /\ insts = <<>>
    /\ stack = <<>>
    /\ call = NoCall
    /\ last = NoOp
    /\ rt = NoRt
    /\ log = <<>>
    /\ basic = BasicInit

\* SelectorSpy.spyjQuery(handler)
SpyjQuery ==
    /\ Idle
    /\ Len(insts) + Len(jQueryFnNames) + 1 <= MaxInstjQuery
    /\ LET r == SpyjQueryOp(Core)
           res == IF r.err = "none" THEN Returned ELSE Thrown(NoCall, r.err)
       IN
       /\ SetCore(r.st)
       /\ call' = res
       /\ log' = Logged("spyjQuery", jQueryFind, Undefined, res)
    /\ last' = [op |-> "spyjQuery", p |-> jQueryFind, h |-> Undefined, ret |-> Null,
                was |-> Spied(Core), fn |-> Null, ns |-> <<>>, made |-> 0]
    /\ rt' = NoRt
    /\ UNCHANGED stack
    /\ UNCHANGED basic

\* spyjQuery and the other operations on the members of jQuery.fn and jQuery.
NextjQuery ==
    \/ SpyjQuery
    \/ \E p \in jQueryPairs : Unspy(p)
    \/ UnspyAll
    \/ \E p \in jQueryPairs : Retreive(p)
    \/ \E p \in jQueryPairs : UserCall(p)
    \/ WrapperEnter
    \/ ReplacementProxies
    \/ ReplacementThrows
    \/ WrapperExit
    \/ OriginalReturns
    \/ OriginalThrows
    \/ \E q \in jQueryPairs : OriginalCalls(q)

SpecjQuery == InitjQuery /\ [][NextjQuery]_vars

\* ---------------------------------------------------------------- static variant
\* The draft of the module whose installed function checks the registry
\* before it runs the replacement, instead of unspying and spying again.
UndefinedValue == [k |-> "undefined"]

\* unspy(namespace, fnName) of the draft: it returns `handler`, which stays
\* undefined when no record matches.
UnspyStaticOp(st, p) ==
    LET i == Find(st, p) IN
    IF i <= Len(st.spies)
    THEN [st  |-> [st EXCEPT !.ns[p] = st.props[st.spies[i]].native,
                             !.spies = RemoveAt(st.spies, i)],
          ret |-> st.ns[p]]
    ELSE [st |-> st, ret |-> UndefinedValue]

\* spy(namespace, fnName, handler) of the draft: no handler is saved in the
\* bypassed arrays of the other spies.
SpyStaticOp(st, p, h) ==
    LET u == UnspyStaticOp(st, p).st IN
    IF h = Undefined THEN [st |-> u, err |-> "TypeError"]
    ELSE
    LET id       == Len(u.insts) + 1
        theSpy   == IF HandlerShares(h) THEN SharedFn ELSE id
        bypassed == PushedBypass(h)
    IN
    IF BypassesItself(bypassed, p) THEN [st |-> u, err |-> "OwnSelector"]
    ELSE
    [st  |-> [ns    |-> [u.ns EXCEPT ![p] = Wrapper(id)],
              spies |-> Append(u.spies, theSpy),
              props |-> (theSpy :> [native |-> u.ns[p], pair |-> p, bypassed |-> id])
                       @@ u.props,
              insts |-> Append(u.insts, [theSpy |-> theSpy, bypassed |-> bypassed,
                                         maker |-> h, pair |-> p])],
     err |-> "none"]

\* The bypassed array stored on the i-th function of `spies`.
BypassedOf(st, i) == st.insts[st.props[st.spies[i]].bypassed].bypassed

\* The installed function's test: some spy of the registry has an entry in
\* its bypassed array that names the spy's own namespace and fn.
SomeSpyListsItself(st) ==
    \E i \in 1..Len(st.spies) : \E k \in 1..Len(BypassedOf(st, i)) :
        SamePair(st.props[st.spies[i]].pair, BypassedOf(st, i)[k].pair)

SpyStatic(p, h) ==
    /\ Idle
    /\ Len(insts) < MaxInst
    /\ LET r == SpyStaticOp(Core, p, h)
           res == IF r.err = "none" THEN Returned ELSE Thrown(NoCall, r.err)
       IN
       /\ SetCore(r.st)
       /\ call' = res
       /\ log' = Logged("spy", p, h, res)
    /\ last' = [op |-> "spy", p |-> p, h |-> h, ret |-> Null,
                was |-> Spied(Core), fn |-> ns[p], ns |-> <<>>, made |-> 0]
    /\ rt' = NoRt
    /\ UNCHANGED stack
    /\ UNCHANGED basic

UnspyStatic(p) ==
    /\ Idle
    /\ LET r == UnspyStaticOp(Core, p) IN
       /\ SetCore(r.st)
       /\ last' = [op |-> "unspy", p |-> p, h |-> Undefined, ret |-> r.ret,
                   was |-> Spied(Core), fn |-> ns[p], ns |-> <<>>, made |-> 0]
    /\ rt' = NoRt
    /\ call' = Returned
    /\ log' = Logged("unspy", p, Undefined, Returned)
    /\ UNCHANGED stack
    /\ UNCHANGED basic

\* The installed function starts: when its test succeeds it calls
\* thespy.native with its own receiver and arguments, otherwise it runs the
\* replacement.
StaticWrapperEnter ==
    /\ AtWrapper("enter")
    /\ IF SomeSpyListsItself(Core)
       THEN /\ Len(stack) < MaxDepth
            /\ stack' = Append([stack EXCEPT ![Len(stack)].pc = "direct"],
                               Frame(props[insts[Top.i].theSpy].native, Top.this, Top.args))
       ELSE stack' = [stack EXCEPT ![Len(stack)].pc = "run"]
    /\ UNCHANGED <<ns, spies, props, insts, call, last, rt, log>>
    /\ UNCHANGED basic

\* The installed function returns what the replacement or the original
\* returned.
StaticWrapperExit ==
    /\ AtWrapper("exit")
    /\ stack' = Return(stack)
    /\ Goes(Ended(Return(stack), call, Top.ret))
    /\ UNCHANGED <<ns, spies, props, insts, last, rt>>
    /\ UNCHANGED basic

NextStatic ==
    \/ \E p \in Pairs, h \in Handlers : SpyStatic(p, h)
    \/ \E p \in Pairs : UnspyStatic(p)
    \/ UnspyAll
    \/ \E p \in Pairs : UserCall(p)
    \/ StaticWrapperEnter
    \/ ReplacementProxies
    \/ ReplacementReturns
    \/ ReplacementThrows
    \/ StaticWrapperExit
    \/ OriginalReturns
    \/ OriginalThrows
    \/ \E q \in Pairs : OriginalCalls(q)

SpecStatic == Init /\ [][NextStatic]_vars

\* ---------------------------------------------------------------- stale proxy
\* unspy(namespace, fnName) when the user keeps the function it returns: the
\* closure of that function stays reachable.
UnspyKeeping(p) ==
    /\ Idle
    /\ LET r == UnspyOp(Core, p) IN
       /\ ns' = r.st.ns
       /\ spies' = r.st.spies
       /\ props' = r.st.props
       /\ insts' = r.st.insts
       /\ last' = [op |-> "unspy", p |-> p, h |-> Undefined, ret |-> r.ret,
                   was |-> Spied(Core), fn |-> ns[p], ns |-> <<>>, made |-> 0]
    /\ rt' = NoRt
    /\ call' = Returned
    /\ log' = Logged("unspy", p, Undefined, Returned)
    /\ UNCHANGED stack
    /\ UNCHANGED basic

\* The user calls the function the unspy just before returned, as a method
\* of the namespace it was removed from: its replacement runs with the proxy
\* of the spy that unspy removed.
CallRemoved ==
    /\ Idle
    /\ last.op = "unspy"
    /\ last.ret.k = "wrapper"
    /\ stack' = <<Frame(last.ret, last.p[1], DefaultArgs)>>
    /\ call' = [NoCall EXCEPT !.outcome = "running", !.this = last.p[1], !.args = DefaultArgs]
    /\ last' = [op |-> "call", p |-> last.p, h |-> Undefined, ret |-> Null,
                was |-> Spied(Core), fn |-> last.ret, ns |-> ns, made |-> Len(insts)]
    /\ rt' = NoRt
    /\ log' = Off
    /\ UNCHANGED <<ns, spies, props, insts>>
    /\ UNCHANGED basic

NextStale ==
    \/ \E p \in Pairs, h \in Handlers : Spy(p, h)
    \/ \E p \in Pairs : UnspyKeeping(p)
    \/ UnspyAll
    \/ \E p \in Pairs : UserCall(p)
    \/ CallRemoved
    \/ WrapperEnter
    \/ ReplacementProxies
    \/ ReplacementReturns
    \/ WrapperExit
    \/ OriginalReturns
    \/ \E q \in Pairs : OriginalCalls(q)

SpecStale == Init /\ [][NextStale]_vars

\* ---------------------------------------------------------------- both modules
\* The handlers that push nothing into `bypassed`.
NoBypassHandlers == {h \in Handlers : HandlerBypass(h) = <<>>}

\* spy(namespace, fnName, handler) applied to SelectorSpy and to the basic
\* module.
BothSpy(p, h) ==
    /\ Idle
    /\ Len(insts) < MaxInst
    /\ SetCore(SpyOp(Core, p, h).st)
    /\ basic' = BasicSpyOp(basic, p, h)
    /\ last' = [op |-> "spy", p |-> p, h |-> h, ret |-> Null,
                was |-> Spied(Core), fn |-> ns[p], ns |-> <<>>, made |-> 0]
    /\ call' = Returned
    /\ rt' = NoRt
    /\ log' = Off
    /\ UNCHANGED stack

\* unspy(namespace, fnName) applied to both.
BothUnspy(p) ==
    /\ Idle
    /\ SetCore(UnspyOp(Core, p).st)
    /\ basic' = BasicUnspyOp(basic, p)
    /\ last' = [op |-> "unspy", p |-> p, h |-> Undefined, ret |-> UnspyOp(Core, p).ret,
                was |-> Spied(Core), fn |-> ns[p], ns |-> <<>>, made |-> 0]
    /\ call' = Returned
    /\ rt' = NoRt
    /\ log' = Off
    /\ UNCHANGED stack

\* unspyAll() applied to both.
BothUnspyAll ==
    /\ Idle
    /\ SetCore(UnspyAllOp(Core))
    /\ basic' = BasicUnspyAllOp(basic)
    /\ last' = [op |-> "unspyAll", p |-> PO, h |-> Undefined, ret |-> Null,
                was |-> Spied(Core), fn |-> Null, ns |-> <<>>, made |-> 0]
    /\ call' = Returned
    /\ rt' = NoRt
    /\ log' = Off
    /\ UNCHANGED stack

NextBoth ==
    \/ \E p \in Pairs, h \in NoBypassHandlers : BothSpy(p, h)
    \/ \E p \in Pairs : BothUnspy(p)
    \/ BothUnspyAll

SpecBoth == Init /\ [][NextBoth]_vars

\* The same when every handler returns a function of its own.
NextBothFresh ==
    \/ \E p \in Pairs, h \in NoBypassHandlers : ~HandlerShares(h) /\ BothSpy(p, h)
    \/ \E p \in Pairs : BothUnspy(p)
    \/ BothUnspyAll

SpecBothFresh == Init /\ [][NextBothFresh]_vars

\* ---------------------------------------------------------------- C1
\* C1 as stated: after spy(namespace, fnName, handler) followed by
\* unspy(namespace, fnName), namespace[fnName] is the value it had immediately
\* before spy was called.
C1_RoundTripAsStated ==
    rt.done => ns[rt.p] = rt.now.pre

\* C1 amended: after spy then unspy on a pair, namespace[fnName] is the value
\* it had immediately before spy when the pair was not intercepted at that
\* time, and the original the registry had recorded for the pair when it was.
C1_RoundTrip ==
    rt.done => ns[rt.p] = IF rt.now.had THEN rt.now.orig ELSE rt.now.pre

C1_Witness ==
    /\ rt.done /\ rt.n = 1 /\ ~rt.now.had
    /\ last.op = "unspy" /\ last.fn.k = "wrapper"
    /\ ns[rt.p] = Native(rt.p)

\* ---------------------------------------------------------------- C3
\* C3 as stated: spy twice in succession on one pair, then unspy once, leaves
\* namespace[fnName] the value it had before the first spy.
C3_TwiceThenUnspyAsStated ==
    (rt.done /\ rt.n = 2) => ns[rt.p] = rt.first.pre

\* C3 amended: spy twice in succession on one pair, then unspy once, leaves
\* namespace[fnName] the value it had before the first spy when the pair was
\* not intercepted at that time, and the original the registry had recorded
\* for the pair when it was; the wrapper of the first spy is not left there.
C3_TwiceThenUnspy ==
    (rt.done /\ rt.n = 2) =>
        /\ ns[rt.p] = IF rt.first.had THEN rt.first.orig ELSE rt.first.pre
        /\ ns[rt.p] # rt.now.pre

C3_Witness ==
    /\ rt.done /\ rt.n = 2 /\ ~rt.first.had
    /\ rt.now.pre.k = "wrapper"
    /\ ns[rt.p] = Native(rt.p)

\* ---------------------------------------------------------------- C2
Records(st, p) == {i \in 1..Len(st.spies) : SamePair(st.props[st.spies[i]].pair, p)}

\* C2: whatever spy, unspy, unspyAll and calls to intercepted members have
\* happened, the list `spies` holds at most one record for any pair.
C2_OneRecordPerPair ==
    \A p \in Pairs : Cardinality(Records(Core, p)) <= 1

\* ---------------------------------------------------------------- C4
\* C4: unspyAll() puts the original back at every pair that was intercepted
\* when it was called and empties the registry, and retreive then returns
\* null for each of those pairs.
C4_UnspyAllRestores ==
    last.op = "unspyAll" =>
        /\ spies = <<>>
        /\ \A p \in last.was : ns[p] = Native(p) /\ RetreiveOp(Core, p) = Null

\* ---------------------------------------------------------------- C5
\* C5: retreive returns the original the spy recorded for an intercepted
\* pair, not the installed replacement, returns null for a pair that is not
\* intercepted, and changes neither the registry nor a namespace member.
C5_RetreiveOriginal ==
    last.op = "retreive" =>
        last.ret = IF Intercepted(Core, last.p)
                   THEN props[spies[Find(Core, last.p)]].native ELSE Null

\* C5, the part that holds: retreive changes neither the registry nor a member.
C5_RetreiveChangesNothing ==
    [][\A p \in Pairs : Retreive(p) => UNCHANGED <<ns, spies, props, insts>>]_vars

\* ---------------------------------------------------------------- C6
\* C6: unspy on an intercepted pair writes the original back, removes the
\* record and returns the function that was installed; on a pair that is not
\* intercepted it returns null and changes nothing, so a second unspy in a
\* row is a no-op returning null.
C6_Unspy ==
    [][\A p \in Pairs : Unspy(p) =>
        /\ IF Intercepted(Core, p)
           THEN /\ ns'[p] = props[spies[Find(Core, p)]].native
                /\ last'.ret = ns[p]
                /\ Len(spies') = Len(spies) - 1
           ELSE /\ last'.ret = Null
                /\ UNCHANGED <<ns, spies, props, insts>>
        /\ (last.op = "unspy" /\ last.p = p) =>
                /\ last'.ret = Null
                /\ UNCHANGED <<ns, spies, props, insts>>]_vars

\* ---------------------------------------------------------------- C7
\* The user's operations so far are the first n of script s.
InScript(s, n) ==
    /\ Logging
    /\ Len(log) = n
    /\ \A k \in 1..n : s[k] = Step(log[k].op, log[k].p, log[k].h)

\* C7: in the suppression scenario the call A.outer(x) runs the replacement
\* spied on (B, "inner") zero times and ends without an error of SelectorSpy's
\* own; when it has returned, a direct call B.inner(y) runs that replacement
\* exactly once.
C7_Suppression ==
    /\ InScript(SuppressionScript, 3) =>
            /\ call.runs["plain"] = 0
            /\ call.err \in {"none", "thrown"}
            /\ (Idle /\ call.err = "none") => call.outcome = "ok"
    /\ (InScript(SuppressionScript, 4) /\ log[3].res.outcome = "ok" /\ Idle) =>
            call.runs["plain"] = 1

C7_Witness ==
    /\ InScript(SuppressionScript, 4) /\ Idle
    /\ log[3].res.outcome = "ok"
    /\ log[3].res.runs["byp"] = 1 /\ log[3].res.runs["plain"] = 0
    /\ log[3].res.origs[PO] = 1 /\ log[3].res.origs[PI] = 1
    /\ call.outcome = "ok" /\ call.runs["plain"] = 1

\* ---------------------------------------------------------------- C8
\* The pairs in the bypassed array of the wrapper the user called last.
BypassedByCalled ==
    IF last.op = "call" /\ last.fn.k = "wrapper"
    THEN {insts[last.fn.i].bypassed[k].pair : k \in 1..Len(insts[last.fn.i].bypassed)}
    ELSE {}

\* C8: when the replacement of a spy, or the original it calls, throws, every
\* pair of the spy's bypass list that was intercepted before the call is
\* intercepted again once the call has ended.
C8_ThrowRestoresBypassed ==
    (last.op = "call" /\ Idle /\ call.err = "thrown") =>
        \A q \in BypassedByCalled : q \in last.was => Intercepted(Core, q)

\* ---------------------------------------------------------------- C9
\* C9: spy with a handler that pushes its own pair into the bypass list fails,
\* and the registry and namespace[fnName] are as they were before the call,
\* whether or not the pair was intercepted.
C9_OwnSelectorChangesNothing ==
    [][\A p \in Pairs, h \in Handlers :
        (Spy(p, h) /\ BypassesItself(PushedBypass(h), p)) =>
            /\ call'.outcome = "error"
            /\ spies' = spies
            /\ ns'[p] = ns[p]]_vars

\* ---------------------------------------------------------------- C10
\* C10: a call to a spy whose bypass list names a pair that is not intercepted
\* at that time returns the replacement's result without error, and the named
\* pair is still not intercepted afterwards.
C10_AbsentTargetIsNoOp ==
    (last.op = "call" /\ Idle /\ call.err # "thrown") =>
        \A q \in BypassedByCalled :
            q \notin last.was => (call.outcome = "ok" /\ ~Intercepted(Core, q))

\* ---------------------------------------------------------------- C11
\* C11: after spyjQuery(handler), a call jQuery.fn.find(selector) whose
\* original delegates to jQuery.find invokes handler exactly once: by the
\* replacement spied on jQuery.fn.find, and not by the one spied on jQuery.find.
C11_jQueryHandlerOnce ==
    (/\ last.op = "call" /\ last.p = jQueryFn("find") /\ last.was = jQueryPairs
     /\ Idle /\ call.err # "thrown"
     /\ call.origs[jQueryFn("find")] = 1) =>
        /\ call.runs["jqfn"] = 1
        /\ call.runs["jq"] = 0

\* ---------------------------------------------------------------- C12
\* Every replacement that ran in call c passed on what it was called with:
\* its only argument or the Array of its arguments, and no context or its
\* own receiver.
Unmodified(c) ==
    /\ c.forms # {}
    /\ \A f \in c.forms :
        /\ f[2] \in {"omitted", "this"}
        /\ f[1] = "all" \/ (f[1] = "first" /\ Len(c.args) = 1)

\* C12: a call namespace[fnName](args), made with any receiver, to a member
\* spied with a replacement that forwards every call unmodified through the
\* proxy returns the result the original would have returned for that call.
C12_IdentityReplacement ==
    (/\ last.op = "call" /\ last.fn.k = "wrapper"
     /\ Idle /\ call.outcome = "ok"
     /\ Unmodified(call)) =>
        call.ret = Res(last.p, call.this, call.args)

\* ---------------------------------------------------------------- C13
\* The frames of the wrappers whose replacement has called the proxy.
Proxied == {k \in 1..Len(stack) : stack[k].t = "wrapper" /\ stack[k].px.form # "none"}

\* C13: proxy(args, context) calls the original with receiver context when a
\* context is passed, and with the namespace the spy was installed on when it
\* is omitted, whatever the receiver of the replacement.
C13_ProxyReceiver ==
    \A k \in Proxied :
        stack[k].px.inv.this = IF stack[k].px.cx = "omitted"
                               THEN insts[stack[k].i].pair[1]
                               ELSE stack[k].px.c

\* ---------------------------------------------------------------- C14
\* The proxy has returned the result of the call it made.
ReturnsResult(f) ==
    (f.pc = "exit" /\ f.px.inv.fn.k = "native") =>
        f.ret = Res(f.px.inv.fn.p, f.px.inv.this, f.px.inv.args)

\* C14 as stated: the proxy forwards a single value as the sole argument of
\* the original and an ordered sequence of values as its positional arguments
\* in the same order, and returns the original's return value unchanged.
C14_ProxyArgumentsAsStated ==
    \A k \in Proxied :
        /\ stack[k].px.form \in {"first", "replace"} =>
                stack[k].px.inv.args = <<stack[k].px.a>>
        /\ stack[k].px.form = "all" => stack[k].px.inv.args = stack[k].args
        /\ ReturnsResult(stack[k])

\* C14 amended: the proxy forwards a single value that is not an Array as the
\* sole argument of the function it calls, and the elements of an Array as
\* its positional arguments in the same order, also when the Array was meant
\* as a single value; it returns the return value of that call unchanged.
C14_ProxyArguments ==
    \A k \in Proxied :
        /\ ~stack[k].px.a.arr => stack[k].px.inv.args = <<stack[k].px.a>>
        /\ stack[k].px.a.arr =>
                /\ Len(stack[k].px.inv.args) = Len(stack[k].px.a.v)
                /\ \A j \in 1..Len(stack[k].px.a.v) :
                        stack[k].px.inv.args[j] = stack[k].px.a.v[j]
        /\ ReturnsResult(stack[k])

C14_Witness ==
    \E k \in Proxied :
        /\ stack[k].pc = "exit"
        /\ stack[k].px.form = "all"
        /\ stack[k].px.inv.fn.k = "native"
        /\ stack[k].ret.args = <<Str(<<".bar">>), Str(<<"ctx">>), Str(<<"res">>)>>

\* ---------------------------------------------------------------- C15
\* C15: with a spy whose replacement calls the proxy once with the selector
\* it was given less ".foo", one call of the member with ".foo.bar" runs the
\* replacement exactly once and the original the member had before the spy
\* exactly once, with ".bar" as its argument.
C15_QuerySelector ==
    (/\ InScript(QuerySelectorScript, 2) /\ Idle
     /\ call.forms = {<<"replace", "omitted">>}
     /\ call.args = <<Str(<<".foo", ".bar">>)>>) =>
        /\ call.outcome = "ok"
        /\ call.runs["plain"] = 1
        /\ call.origs = [NoCall.origs EXCEPT ![PO] = 1]
        /\ call.ret = Res(PO, "A", <<Str(<<".bar">>)>>)

C15_Witness ==
    /\ InScript(QuerySelectorScript, 2) /\ Idle
    /\ call.forms = {<<"replace", "omitted">>}
    /\ call.args = <<Str(<<".foo", ".bar">>)>>
    /\ call.ret.args = <<Str(<<".bar">>)>>
    /\ ns[PO] = Wrapper(1)

\* ---------------------------------------------------------------- C16
\* The pairs in the bypassed array of wrapper i.
BypassedBy(i) == {insts[i].bypassed[k].pair : k \in 1..Len(insts[i].bypassed)}

\* C16: however intercepted calls nest, no wrapper of a pair is called, and
\* so its replacement does not run, while a call of an outer spy that lists
\* the pair in its bypass list is in progress; and when the outermost call
\* has returned, the listed pairs that were intercepted before it are
\* intercepted again.
C16_NestedBypass ==
    /\ \A k, m \in 1..Len(stack) :
            (k < m /\ stack[k].t = "wrapper" /\ stack[m].t = "wrapper") =>
                insts[stack[m].i].pair \notin BypassedBy(stack[k].i)
    /\ (last.op = "call" /\ Idle /\ call.outcome = "ok") =>
            \A q \in BypassedByCalled : q \in last.was => Intercepted(Core, q)

\* ---------------------------------------------------------------- C17
\* C17: in every reachable state the original recorded in every record of the
\* registry is the function the pair's member was before any spy, never a
\* wrapper installed by spy.
C17_NativeIsOriginal ==
    \A i \in 1..Len(spies) :
        /\ props[spies[i]].native.k # "wrapper"
        /\ props[spies[i]].native = Native(props[spies[i]].pair)

\* ---------------------------------------------------------------- C18
\* C18: when a call to a spy that bypasses pair T has returned, the member of
\* T is the function it was before the call, and the call has invoked no
\* handler: the handlers have made as many functions as before.
C18_SameReplacement ==
    (last.op = "call" /\ Idle /\ call.outcome = "ok") =>
        /\ \A q \in BypassedByCalled : q \in last.was => ns[q] = last.ns[q]
        /\ Len(insts) = last.made

\* ---------------------------------------------------------------- C19
\* C19: once unspy has restored pair T, T stays out of the registry and its
\* member stays its original, also during and after a call to an outer spy,
\* still installed, that lists T in its bypass list.
C19_RestoreIsDurable ==
    (InScript(UnspiedTargetScript, 3) \/ InScript(UnspiedTargetScript, 4)) =>
        /\ ~Intercepted(Core, PI)
        /\ ns[PI] = Native(PI)

\* ---------------------------------------------------------------- C20
\* C20: when the target (B, "inner") is spied before the outer spy on
\* (A, "outer") that lists it, a call A.outer(x) runs the target's replacement
\* zero times, ends without an error of SelectorSpy's own and leaves
\* (B, "inner") intercepted once it has returned, as when the target is
\* spied after the outer spy.
C20_InstallOrder ==
    InScript(TargetFirstScript, 3) =>
        /\ call.runs["plain"] = 0
        /\ call.err \in {"none", "thrown"}
        /\ (Idle /\ call.err = "none") => (call.outcome = "ok" /\ Intercepted(Core, PI))

\* ---------------------------------------------------------------- C21
\* C21: whenever no call is in progress, the member of a pair is a wrapper
\* installed by spy if and only if the registry holds a record for the pair,
\* and the member of a pair without a record is the pair's original.
C21_RegistryAgrees ==
    Idle => \A p \in DOMAIN ns :
                /\ (ns[p].k = "wrapper") <=> Intercepted(Core, p)
                /\ ~Intercepted(Core, p) => ns[p] = Native(p)

\* ---------------------------------------------------------------- C22
\* The registry and the members after a step.
CoreAfter == [ns |-> ns', spies |-> spies', props |-> props', insts |-> insts']

\* C22: spy or unspy on a pair P2 leaves the member of every other pair P1
\* as it is, and leaves the record of every other intercepted pair P1 in the
\* registry with the same original, whatever functions the handlers return.
C22_RecordsIndependent ==
    [][\A p2 \in Pairs : ((\E h \in Handlers : Spy(p2, h)) \/ Unspy(p2)) =>
        \A p1 \in Pairs \ {p2} :
            /\ ns'[p1] = ns[p1]
            /\ Intercepted(Core, p1) =>
                    /\ Intercepted(CoreAfter, p1)
                    /\ props'[spies'[Find(CoreAfter, p1)]].native
                           = props[spies[Find(Core, p1)]].native]_vars

\* ---------------------------------------------------------------- C23
\* Some record of the registry lists pair p in its bypassed array.
ListedByRecord(st, p) ==
    \E i \in 1..Len(st.spies) : \E k \in 1..Len(BypassedOf(st, i)) :
        SamePair(BypassedOf(st, i)[k].pair, p)

\* C23: in the static variant the function installed on a pair calls the
\* original directly, without running its replacement, when some record of
\* the registry lists the pair in its bypass list, and runs the replacement
\* otherwise.
C23_StaticBypass ==
    \A k \in 1..Len(stack) :
        stack[k].t = "wrapper" =>
            /\ (stack[k].pc \in {"run", "wait"}) =>
                    ~ListedByRecord(Core, insts[stack[k].i].pair)
            /\ stack[k].pc = "direct" => ListedByRecord(Core, insts[stack[k].i].pair)

\* ---------------------------------------------------------------- C24
\* The call in progress, or the last one, is a call of a function that was
\* not a member when it was called: the function an unspy had removed.
CallOfRemoved == last.op = "call" /\ last.fn.k = "wrapper" /\ last.fn # last.ns[last.p]

\* C24: the proxy of a spy that unspy has removed fails when it is invoked:
\* the replacement that invoked it never waits for a call of the original,
\* no original runs, and the call ends with a StaleProxyError.
C24_StaleProxyFails ==
    CallOfRemoved =>
        /\ stack # <<>> => stack[1].pc # "wait"
        /\ \A q \in Pairs : call.origs[q] = 0
        /\ (Idle /\ <<"first", "omitted">> \in call.forms) => call.err = "StaleProxyError"

\* ---------------------------------------------------------------- C25
\* C25: after every sequence of spy, unspy and unspyAll given to SelectorSpy
\* and to the basic module with handlers that declare no bypass, the two have
\* the same intercepted pairs, the same recorded original for each
\* intercepted pair, and the same pairs whose member is its original.
C25_SameAsBasic ==
    \A p \in Pairs :
        /\ Intercepted(Core, p) <=> BasicIntercepted(basic, p)
        /\ (Intercepted(Core, p) /\ BasicIntercepted(basic, p)) =>
                props[spies[Find(Core, p)]].native
                    = basic.selectorAPI[BasicFindFrom(basic.selectorAPI, p, 1)].native
        /\ (ns[p] = Native(p)) <=> (basic.ns[p] = Native(p))

====
